---- MODULE Spec2Model ----
(***************************************************************************)
(* A model of two parts of the PPSSPP sources:                             *)
(*                                                                         *)
(*   ext/native/thread/threadpool.cpp   WorkerThread, LoopWorkerThread and *)
(*                                      ThreadPool::ParallelLoop           *)
(*   GPU/Software/TransformUnit.cpp     TransformUnit::SubmitPrimitive     *)
(*                                      and the coordinate transforms      *)
(*                                                                         *)
(* Threads are modelled at the granularity of their critical sections: a   *)
(* std::lock_guard region that contains no blocking call is one step, a    *)
(* condition_variable::wait releases its mutex and blocks in one step and  *)
(* re-acquires the mutex in the step that leaves the wait.  The done       *)
(* mutex (doneMutex) is only ever held inside such one-step regions, so it *)
(* needs no variable of its own; the worker mutex and the pool mutex are   *)
(* held across steps and are variables.                                    *)
(***************************************************************************)
EXTENDS Integers, Sequences, FiniteSets, Bags, TLC

\* ------------------------------------------------------------------ bounds

\* ThreadPool::ThreadPool caps the pool at 8 threads.
MaxThreads == 8

\* Largest vertex_count of a draw call.
MaxVerts == 7

\* Largest numThreads requested of the pool in the concurrent specification.
MaxReq == 3

\* ParallelLoop calls made in one behaviour.
MaxCalls == 2

\* Jobs a client submits directly to one worker (worker harness).
MaxJobs == 2

\* Requested pool sizes, lower bounds and range lengths of the sequential
\* specification (SpecLoop), which walks every split the code computes.
LoopReqMax == 9
LoopRangeMax == 24

\* ------------------------------------------------------------------ names

Callers == {"c1", "c2"}
Client == "client"
Owners == Callers \cup {Client}
WorkerIds == 0 .. (MaxThreads - 1)
Free == "free"
NoWork == "none"
NoIndices == [present |-> FALSE, buf |-> <<>>]

VARIABLES
  \* ThreadPool
  requested,       \* the constructor's argument (kept to state the clamp)
  numThreads_,     \* ThreadPool::numThreads_
  workersStarted,  \* ThreadPool::workersStarted
  workers,         \* ThreadPool::workers, the sequence of created workers
  poolMutex,       \* ThreadPool::mutex: Free or the caller holding it
  \* LoopWorkerThread, one per worker id
  active,          \* WorkerThread::active
  jobsDone,        \* WorkerThread::jobsDone
  jobsTarget,      \* WorkerThread::jobsTarget
  work_,           \* LoopWorkerThread::work_: whose loop callable is in the slot
  start_,          \* LoopWorkerThread::start_
  end_,            \* LoopWorkerThread::end_
  mutex,           \* WorkerThread::mutex: Free or "worker"
  sigWait,         \* the worker is blocked in signal.wait and not yet notified
  doneWait,        \* threads blocked in done.wait and not yet notified
  wpc,             \* the worker thread's position in WorkFunc
  \* a thread inside ThreadPool::ParallelLoop
  cpc,             \* position of the caller
  lower, upper,    \* the call's arguments
  chunk, s, i,     \* ParallelLoop's locals
  passed,          \* sub-ranges handed to loop by the call, in order
  executed,        \* invocations of the callable that have returned (a bag)
  calls,           \* ParallelLoop calls begun so far
  everParallel,    \* some call has taken the parallel path
  \* worker harness: a client of one worker and the thread destroying it
  clientpc,
  dtorpc,
  \* TransformUnit::SubmitPrimitive
  ppc,             \* position inside SubmitPrimitive
  prim_type,       \* the argument prim_type
  vertex_count,    \* the argument vertex_count
  indices,         \* the pointer indices: whether it is non-null, and the buffer
  vtcs_per_prim,   \* the local vtcs_per_prim
  vtx,             \* the outer loop's variable
  vi,              \* the inner loop's variable i
  data,            \* the entries of data[] filled in this round
  clipCalls,       \* the calls made to the Clipper, in order
  vertices,        \* the argument vertices: the vertex memory it points to
  vertex_type,     \* the argument vertex_type: the attributes it declares
  gstate,          \* the GPU state snapshot (global gstate)
  lightCalls,      \* the arguments of the calls to Lighting::Process, in order
  \* TransformUnit::ScreenToDrawing called on its own
  screen,          \* the argument coords
  drawing          \* the value returned

poolVars == <<requested, numThreads_, workersStarted, workers, poolMutex>>
slotVars == <<work_, start_, end_, jobsTarget>>
workerVars == <<active, jobsDone, jobsTarget, work_, start_, end_, mutex,
                sigWait, doneWait, wpc>>
callerVars == <<cpc, lower, upper, chunk, s, i, passed, calls, everParallel>>
harnessVars == <<clientpc, dtorpc>>
threadVars == <<requested, numThreads_, workersStarted, workers, poolMutex,
                active, jobsDone, jobsTarget, work_, start_, end_, mutex,
                sigWait, doneWait, wpc,
                cpc, lower, upper, chunk, s, i, passed, executed, calls,
                everParallel, clientpc, dtorpc>>
primVars == <<ppc, prim_type, vertex_count, indices, vtcs_per_prim, vtx, vi,
              data, clipCalls, vertices, vertex_type, gstate, lightCalls,
              screen, drawing>>
\* What a draw call never assigns: the snapshot and the stand-alone
\* ScreenToDrawing call.
stateVars == <<gstate, screen, drawing>>

vars == <<requested, numThreads_, workersStarted, workers, poolMutex,
          active, jobsDone, jobsTarget, work_, start_, end_, mutex,
          sigWait, doneWait, wpc,
          cpc, lower, upper, chunk, s, i, passed, executed, calls,
          everParallel, clientpc, dtorpc,
          ppc, prim_type, vertex_count, indices, vtcs_per_prim, vtx, vi,
          data, clipCalls, vertices, vertex_type, gstate, lightCalls,
          screen, drawing>>

\* ------------------------------------------------------------ ThreadPool

\* The minimum and the maximum of two integers.
Min(a, b) == IF a < b THEN a ELSE b
Max(a, b) == IF a > b THEN a ELSE b

\* ThreadPool::ThreadPool: the clamp of the requested size.
ThreadPoolCtor(numThreads) ==
  IF numThreads <= 0 THEN 1
  ELSE IF numThreads > MaxThreads THEN MaxThreads
  ELSE numThreads

\* A threshold of one element per thread instead of two.
TakesParallelPathLow(n, lo, up) == (up - lo) >= n

\* ParallelLoop's test for the parallel path.
TakesParallelPath(n, lo, up) == (up - lo) >= n * 2

\* The chunk size rounded up instead of down.
ChunkOfRoundedUp(n, lo, up) == ((up - lo) + n - 1) \div n

\* int chunk = range / numThreads_ (range is positive here).
ChunkOf(n, lo, up) == (up - lo) \div n

\* A chunk for every worker, the last one included.
NumDispatchedAll(n) == n

\* The dispatch loop's bound: workers 0 .. numThreads_ - 2 get a chunk.
NumDispatched(n) == n - 1


\* ------------------------------------------------------- LoopWorkerThread

\* Member initialisers of a fresh worker: active, jobsDone, jobsTarget.
NewWorkerActive == TRUE
NewWorkerJobs == 0

\* A worker that looks for a pending job before it looks at active.
WorkFuncJobFirst(act, target, done) ==
  IF target > done THEN "run"
  ELSE IF ~act THEN "exit"
  ELSE "wait"

\* The inner loop left while jobsTarget equals jobsDone.
WorkFuncRunsAgain(act, target, done) ==
  IF ~act THEN "exit"
  ELSE IF target < done THEN "wait"
  ELSE "run"

\* LoopWorkerThread::WorkFunc, evaluated with the mutex held, at the head of
\* the outer loop and whenever signal.wait returns:
\*   while (active) { while (active && jobsTarget <= jobsDone) wait;
\*                    if (active) { work_(start_, end_); ... } }
WorkFuncNext(act, target, done) ==
  IF ~act THEN "exit"
  ELSE IF target <= done THEN "wait"
  ELSE "run"

\* A target that counts submissions instead of following jobsDone.
NewTargetCounting(done, target) == target + 1

\* Process: jobsTarget = jobsDone + 1.
NewTarget(done, target) == done + 1

\* A completion test that is off by one and lets the caller through.
MustWaitOffByOne(done, target) == done + 1 < target

\* WaitForCompletion: while (jobsDone < jobsTarget) done.wait(guard).
MustWait(done, target) == done < target

\* condition_variable::notify_one on a set of blocked threads: wakes one of
\* them, or nobody when none is blocked.
NotifyOne(waiters) ==
  IF waiters = {} THEN {{}} ELSE {{t} : t \in waiters}

\* Process without its signal.notify_one().
ProcessNoNotify(w, work, start, end) ==
  /\ mutex[w] = Free
  /\ work_' = [work_ EXCEPT ![w] = work]
  /\ start_' = [start_ EXCEPT ![w] = start]
  /\ end_' = [end_ EXCEPT ![w] = end]
  /\ jobsTarget' = [jobsTarget EXCEPT ![w] = jobsDone[w] + 1]
  /\ UNCHANGED sigWait

\* LoopWorkerThread::Process(work, start, end), one critical section on mutex.
Process(w, work, start, end) ==
  /\ mutex[w] = Free
  /\ work_' = [work_ EXCEPT ![w] = work]
  /\ start_' = [start_ EXCEPT ![w] = start]
  /\ end_' = [end_ EXCEPT ![w] = end]
  /\ jobsTarget' = [jobsTarget EXCEPT ![w] = NewTarget(jobsDone[w], jobsTarget[w])]
  /\ sigWait' = [sigWait EXCEPT ![w] = FALSE]

\* The thread enters WorkFunc and takes the mutex (std::unique_lock).
WorkerStartup(w) ==
  /\ wpc[w] = "start"
  /\ mutex[w] = Free
  /\ mutex' = [mutex EXCEPT ![w] = "worker"]
  /\ wpc' = [wpc EXCEPT ![w] = "loop"]
  /\ UNCHANGED <<primVars, poolVars, callerVars, harnessVars, slotVars, active, jobsDone,
                 sigWait, doneWait, executed>>

\* The loop conditions, evaluated under the mutex: leave the loop (the lock is
\* released as WorkFunc returns), block in signal.wait (which releases the
\* mutex), or call work_.
WorkerLoop(w) ==
  /\ wpc[w] = "loop"
  /\ LET d == WorkFuncNext(active[w], jobsTarget[w], jobsDone[w]) IN
       /\ wpc' = [wpc EXCEPT ![w] =
                    IF d = "exit" THEN "exited"
                    ELSE IF d = "wait" THEN "waiting" ELSE "run"]
       /\ mutex' = [mutex EXCEPT ![w] = IF d = "run" THEN "worker" ELSE Free]
       /\ sigWait' = [sigWait EXCEPT ![w] = (d = "wait")]
  /\ UNCHANGED <<primVars, poolVars, callerVars, harnessVars, slotVars, active, jobsDone,
                 doneWait, executed>>

\* signal.wait returns after a notify_one: the mutex is taken again.
WorkerWake(w) ==
  /\ wpc[w] = "waiting"
  /\ ~sigWait[w]
  /\ mutex[w] = Free
  /\ mutex' = [mutex EXCEPT ![w] = "worker"]
  /\ wpc' = [wpc EXCEPT ![w] = "loop"]
  /\ UNCHANGED <<primVars, poolVars, callerVars, harnessVars, slotVars, active, jobsDone,
                 sigWait, doneWait, executed>>

\* A condition variable may wake without a notify.
SpuriousWake(w) ==
  /\ wpc[w] = "waiting"
  /\ sigWait[w]
  /\ sigWait' = [sigWait EXCEPT ![w] = FALSE]
  /\ UNCHANGED <<primVars, poolVars, callerVars, harnessVars, slotVars, active, jobsDone,
                 mutex, doneWait, wpc, executed>>

\* work_(start_, end_) runs and returns (the mutex stays held).
WorkerRun(w) ==
  /\ wpc[w] = "run"
  /\ executed' = [executed EXCEPT ![work_[w]] =
                    @ (+) SetToBag({[lo |-> start_[w], hi |-> end_[w], by |-> w]})]
  /\ wpc' = [wpc EXCEPT ![w] = "done"]
  /\ UNCHANGED <<primVars, poolVars, callerVars, harnessVars, slotVars, active, jobsDone,
                 mutex, sigWait, doneWait>>


\* The job is finished: under doneMutex, jobsDone++ and done.notify_one().
WorkerDone(w) ==
  /\ wpc[w] = "done"
  /\ jobsDone' = [jobsDone EXCEPT ![w] = @ + 1]
  /\ \E woken \in NotifyOne(doneWait[w]) :
       doneWait' = [doneWait EXCEPT ![w] = @ \ woken]
  /\ wpc' = [wpc EXCEPT ![w] = "loop"]
  /\ UNCHANGED <<primVars, poolVars, callerVars, harnessVars, slotVars, active, mutex,
                 sigWait, executed>>

WorkerStep(w) ==
  \/ WorkerStartup(w)
  \/ WorkerLoop(w)
  \/ WorkerWake(w)
  \/ WorkerRun(w)
  \/ WorkerDone(w)

\* ---------------------------------------------- ThreadPool::ParallelLoop

\* StartWorkers without its workersStarted test: every call adds workers.
StartWorkersAgain(started, ws, n) ==
  ws \o [k \in 1 .. n |-> Len(ws) + k - 1]

\* ThreadPool::StartWorkers: the workers after the call.  A created worker is
\* a running thread at the top of WorkFunc.
StartWorkers(started, ws, n) ==
  IF ~started THEN [k \in 1 .. n |-> k - 1] ELSE ws

\* Where the caller goes after the dispatch loop's test i < numThreads_ - 1.
AfterDispatch(k, n) == IF k < NumDispatched(n) THEN "dispatch" ELSE "final"

\* Where the caller goes after the wait loop's test i < numThreads_ - 1.
AfterWait(k, n) == IF k < NumDispatched(n) THEN "wait" ELSE "unlock"

\* ParallelLoop is entered: range = upper - lower and the test of line 110.
Call(c, lo, up) ==
  /\ cpc[c] = "idle"
  /\ calls < MaxCalls
  /\ calls' = calls + 1
  /\ lower' = [lower EXCEPT ![c] = lo]
  /\ upper' = [upper EXCEPT ![c] = up]
  /\ cpc' = [cpc EXCEPT ![c] =
               IF TakesParallelPath(numThreads_, lo, up) THEN "lock" ELSE "small"]
  /\ everParallel' = (everParallel \/ TakesParallelPath(numThreads_, lo, up))
  /\ UNCHANGED <<primVars, poolVars, workerVars, harnessVars, chunk, s, i, passed,
                 executed>>

\* The else branch: loop(lower, upper) on the calling thread.
SmallLoop(c) ==
  /\ cpc[c] = "small"
  /\ passed' = [passed EXCEPT ![c] =
                  Append(@, [lo |-> lower[c], hi |-> upper[c], by |-> c])]
  /\ executed' = [executed EXCEPT ![c] =
                    @ (+) SetToBag({[lo |-> lower[c], hi |-> upper[c], by |-> c]})]
  /\ cpc' = [cpc EXCEPT ![c] = "returned"]
  /\ UNCHANGED <<primVars, poolVars, workerVars, harnessVars, lower, upper, chunk, s, i,
                 calls, everParallel>>

\* The parallel branch entered without the lock_guard on the pool mutex.
LockPoolUnguarded(c) ==
  /\ cpc[c] = "lock"
  /\ poolMutex' = c
  /\ workers' = StartWorkers(workersStarted, workers, numThreads_)
  /\ workersStarted' = TRUE
  /\ wpc' = [w \in WorkerIds |->
               IF ~workersStarted /\ w < numThreads_ THEN "start" ELSE wpc[w]]
  /\ chunk' = [chunk EXCEPT ![c] = ChunkOf(numThreads_, lower[c], upper[c])]
  /\ s' = [s EXCEPT ![c] = lower[c]]
  /\ i' = [i EXCEPT ![c] = 0]
  /\ cpc' = [cpc EXCEPT ![c] = AfterDispatch(0, numThreads_)]
  /\ UNCHANGED <<primVars, requested, numThreads_, harnessVars, slotVars, active, jobsDone,
                 mutex, sigWait, doneWait, lower, upper, passed, executed,
                 calls, everParallel>>

\* lock_guard on the pool mutex, StartWorkers(), chunk and s are set.
LockPool(c) ==
  /\ cpc[c] = "lock"
  /\ poolMutex = Free
  /\ poolMutex' = c
  /\ workers' = StartWorkers(workersStarted, workers, numThreads_)
  /\ workersStarted' = TRUE
  /\ wpc' = [w \in WorkerIds |->
               IF ~workersStarted /\ w < numThreads_ THEN "start" ELSE wpc[w]]
  /\ chunk' = [chunk EXCEPT ![c] = ChunkOf(numThreads_, lower[c], upper[c])]
  /\ s' = [s EXCEPT ![c] = lower[c]]
  /\ i' = [i EXCEPT ![c] = 0]
  /\ cpc' = [cpc EXCEPT ![c] = AfterDispatch(0, numThreads_)]
  /\ UNCHANGED <<primVars, requested, numThreads_, harnessVars, slotVars, active, jobsDone,
                 mutex, sigWait, doneWait, lower, upper, passed, executed,
                 calls, everParallel>>

\* One round of the dispatch loop: workers[i]->Process(loop, s, s+chunk).
Dispatch(c) ==
  /\ cpc[c] = "dispatch"
  /\ Process(workers[i[c] + 1], c, s[c], s[c] + chunk[c])
  /\ passed' = [passed EXCEPT ![c] =
                  Append(@, [lo |-> s[c], hi |-> s[c] + chunk[c],
                             by |-> workers[i[c] + 1]])]
  /\ s' = [s EXCEPT ![c] = @ + chunk[c]]
  /\ i' = [i EXCEPT ![c] = @ + 1]
  /\ cpc' = [cpc EXCEPT ![c] = AfterDispatch(i[c] + 1, numThreads_)]
  /\ UNCHANGED <<primVars, poolVars, harnessVars, active, jobsDone, mutex, doneWait, wpc,
                 lower, upper, chunk, executed, calls, everParallel>>

\* The final chunk, loop(s, upper), on the calling thread.
FinalChunk(c) ==
  /\ cpc[c] = "final"
  /\ passed' = [passed EXCEPT ![c] =
                  Append(@, [lo |-> s[c], hi |-> upper[c], by |-> c])]
  /\ executed' = [executed EXCEPT ![c] =
                    @ (+) SetToBag({[lo |-> s[c], hi |-> upper[c], by |-> c]})]
  /\ i' = [i EXCEPT ![c] = 0]
  /\ cpc' = [cpc EXCEPT ![c] = AfterWait(0, numThreads_)]
  /\ UNCHANGED <<primVars, poolVars, workerVars, harnessVars, lower, upper, chunk, s,
                 calls, everParallel>>

\* workers[i]->WaitForCompletion(): under doneMutex, test the counters and
\* either block in done.wait or return to the wait loop.
WaitForCompletion(c) ==
  /\ cpc[c] = "wait"
  /\ LET w == workers[i[c] + 1] IN
       IF MustWait(jobsDone[w], jobsTarget[w])
       THEN /\ doneWait' = [doneWait EXCEPT ![w] = @ \cup {c}]
            /\ cpc' = [cpc EXCEPT ![c] = "dwait"]
            /\ UNCHANGED i
       ELSE /\ i' = [i EXCEPT ![c] = @ + 1]
            /\ cpc' = [cpc EXCEPT ![c] = AfterWait(i[c] + 1, numThreads_)]
            /\ UNCHANGED doneWait
  /\ UNCHANGED <<primVars, poolVars, harnessVars, slotVars, active, jobsDone, mutex,
                 sigWait, wpc, lower, upper, chunk, s, passed, executed, calls,
                 everParallel>>

\* done.wait returns after a notify_one; the loop condition is tested again.
WaitWake(c) ==
  /\ cpc[c] = "dwait"
  /\ c \notin doneWait[workers[i[c] + 1]]
  /\ cpc' = [cpc EXCEPT ![c] = "wait"]
  /\ UNCHANGED <<primVars, poolVars, workerVars, harnessVars, lower, upper, chunk, s, i,
                 passed, executed, calls, everParallel>>

\* done.wait may wake without a notify.
SpuriousDone(c) ==
  /\ cpc[c] = "dwait"
  /\ c \in doneWait[workers[i[c] + 1]]
  /\ doneWait' = [doneWait EXCEPT ![workers[i[c] + 1]] = @ \ {c}]
  /\ UNCHANGED <<primVars, poolVars, callerVars, harnessVars, slotVars, active, jobsDone,
                 mutex, sigWait, wpc, executed>>

\* The parallel branch ends: the lock_guard releases the pool mutex.
Unlock(c) ==
  /\ cpc[c] = "unlock"
  /\ poolMutex' = Free
  /\ cpc' = [cpc EXCEPT ![c] = "returned"]
  /\ UNCHANGED <<primVars, requested, numThreads_, workersStarted, workers, workerVars,
                 harnessVars, lower, upper, chunk, s, i, passed, executed,
                 calls, everParallel>>

\* ParallelLoop has returned; the thread goes on with its own work.  The
\* call's arguments and locals are gone.
Return(c) ==
  /\ cpc[c] = "returned"
  /\ cpc' = [cpc EXCEPT ![c] = "idle"]
  /\ lower' = [lower EXCEPT ![c] = 0]
  /\ upper' = [upper EXCEPT ![c] = 0]
  /\ chunk' = [chunk EXCEPT ![c] = 0]
  /\ s' = [s EXCEPT ![c] = 0]
  /\ i' = [i EXCEPT ![c] = 0]
  /\ passed' = [passed EXCEPT ![c] = <<>>]
  /\ executed' = [executed EXCEPT ![c] = EmptyBag]
  /\ UNCHANGED <<primVars, poolVars, workerVars, harnessVars, calls, everParallel>>

CallerStep(c) ==
  \/ SmallLoop(c)
  \/ LockPool(c)
  \/ Dispatch(c)
  \/ FinalChunk(c)
  \/ WaitForCompletion(c)
  \/ WaitWake(c)
  \/ Unlock(c)
  \/ Return(c)


\* ------------------------------------------------ one worker and its users

\* Ranges a client submits directly to a worker.
JobRanges == {<<0, 2>>, <<2, 5>>}

\* A client thread calls worker->Process(work, start, end).
ClientProcess(start, end) ==
  /\ clientpc = "idle"
  /\ dtorpc # "joined"
  /\ calls < MaxJobs
  /\ calls' = calls + 1
  /\ Process(0, Client, start, end)
  /\ passed' = [passed EXCEPT ![Client] =
                  Append(@, [lo |-> start, hi |-> end, by |-> 0])]
  /\ UNCHANGED <<primVars, poolVars, harnessVars, active, jobsDone, mutex, doneWait, wpc,
                 cpc, lower, upper, chunk, s, i, executed, everParallel>>

\* The client calls worker->WaitForCompletion(): test under doneMutex, then
\* block in done.wait or return.
ClientWait ==
  /\ clientpc \in {"idle", "rewait"}
  /\ dtorpc # "joined"
  /\ IF MustWait(jobsDone[0], jobsTarget[0])
     THEN /\ doneWait' = [doneWait EXCEPT ![0] = @ \cup {Client}]
          /\ clientpc' = "dwait"
     ELSE /\ clientpc' = "waited"
          /\ UNCHANGED doneWait
  /\ UNCHANGED <<primVars, poolVars, callerVars, slotVars, active, jobsDone, mutex,
                 sigWait, wpc, executed, dtorpc>>

\* done.wait returns in the client after a notify_one.
ClientWake ==
  /\ clientpc = "dwait"
  /\ Client \notin doneWait[0]
  /\ clientpc' = "rewait"
  /\ UNCHANGED <<primVars, poolVars, callerVars, workerVars, executed, dtorpc>>

\* done.wait may wake in the client without a notify.
ClientSpurious ==
  /\ clientpc = "dwait"
  /\ Client \in doneWait[0]
  /\ doneWait' = [doneWait EXCEPT ![0] = @ \ {Client}]
  /\ UNCHANGED <<primVars, poolVars, callerVars, harnessVars, slotVars, active, jobsDone,
                 mutex, sigWait, wpc, executed>>

\* WaitForCompletion has returned to the client.
ClientWaited ==
  /\ clientpc = "waited"
  /\ clientpc' = "idle"
  /\ UNCHANGED <<primVars, poolVars, callerVars, workerVars, executed, dtorpc>>

\* A thread starts destroying the worker: ~WorkerThread is entered.
DtorCall ==
  /\ dtorpc = "idle"
  /\ dtorpc' = "stop"
  /\ UNCHANGED <<primVars, poolVars, callerVars, workerVars, executed, clientpc>>

\* The destructor's critical section without its signal.notify_one().
DtorStopNoNotify ==
  /\ dtorpc = "stop"
  /\ mutex[0] = Free
  /\ active' = [active EXCEPT ![0] = FALSE]
  /\ dtorpc' = "join"
  /\ UNCHANGED <<primVars, poolVars, callerVars, slotVars, jobsDone, mutex, sigWait,
                 doneWait, wpc, executed, clientpc>>

\* ~WorkerThread's critical section: active = false; signal.notify_one().
DtorStop ==
  /\ dtorpc = "stop"
  /\ mutex[0] = Free
  /\ active' = [active EXCEPT ![0] = FALSE]
  /\ sigWait' = [sigWait EXCEPT ![0] = FALSE]
  /\ dtorpc' = "join"
  /\ UNCHANGED <<primVars, poolVars, callerVars, slotVars, jobsDone, mutex, doneWait, wpc,
                 executed, clientpc>>

\* thread->join() returns once WorkFunc has returned.
DtorJoin ==
  /\ dtorpc = "join"
  /\ wpc[0] = "exited"
  /\ dtorpc' = "joined"
  /\ UNCHANGED <<primVars, poolVars, callerVars, workerVars, executed, clientpc>>

\* ------------------------------------------ TransformUnit::SubmitPrimitive

\* The primitive types of the GE; the last three of the first list are the
\* ones SubmitPrimitive has no branch for.
PrimTypes == {"GE_PRIM_POINTS", "GE_PRIM_LINES", "GE_PRIM_TRIANGLES",
              "GE_PRIM_RECTANGLES", "GE_PRIM_LINE_STRIP",
              "GE_PRIM_TRIANGLE_STRIP", "GE_PRIM_TRIANGLE_FAN"}
SupportedPrims == {"GE_PRIM_POINTS", "GE_PRIM_LINES", "GE_PRIM_TRIANGLES",
                   "GE_PRIM_RECTANGLES"}

\* Rectangles taken for four-cornered.
VtcsPerPrimRect4(prim) ==
  IF prim = "GE_PRIM_POINTS" THEN 1
  ELSE IF prim = "GE_PRIM_LINES" THEN 2
  ELSE IF prim = "GE_PRIM_TRIANGLES" THEN 3
  ELSE IF prim = "GE_PRIM_RECTANGLES" THEN 4
  ELSE 0

\* int vtcs_per_prim = 0; then the if-chain on prim_type.
VtcsPerPrim(prim) ==
  IF prim = "GE_PRIM_POINTS" THEN 1
  ELSE IF prim = "GE_PRIM_LINES" THEN 2
  ELSE IF prim = "GE_PRIM_TRIANGLES" THEN 3
  ELSE IF prim = "GE_PRIM_RECTANGLES" THEN 2
  ELSE 0

\* switch (prim_type): the Clipper function the group goes to, if any.
Consumer(prim) ==
  IF prim = "GE_PRIM_TRIANGLES" THEN "ProcessTriangle"
  ELSE IF prim = "GE_PRIM_RECTANGLES" THEN "ProcessQuad"
  ELSE "none"

\* Values an index buffer entry can have in the model.
IndexValues == 0 .. MaxVerts

\* The index buffers of a draw call of n vertices: none, the identity and
\* the reversed order.
IndexBuffers(n) ==
  {NoIndices} \cup
  (IF n >= 1
   THEN {[present |-> TRUE, buf |-> [k \in 1 .. n |-> k - 1]],
         [present |-> TRUE, buf |-> [k \in 1 .. n |-> n - k]]}
   ELSE {})

\* The record the reader goes to for stream position pos: pos itself, or
\* the index buffer's entry.  An entry past the end of the buffer is read
\* from whatever memory follows it: any value.
GotoTargets(idx, pos) ==
  IF ~idx.present THEN {pos}
  ELSE IF pos + 1 \in DOMAIN idx.buf THEN {idx.buf[pos + 1]}
  ELSE IndexValues

\* ------------------------------------------------- the GPU state snapshot

\* A value no assignment has produced yet: a field of a fresh VertexData.
Unset == <<>>

\* a*b^-1 in float arithmetic, then the conversion to an integer type, which
\* truncates toward zero.
TruncDiv(a, b) ==
  LET q == (IF a < 0 THEN -a ELSE a) \div (IF b < 0 THEN -b ELSE b)
  IN  IF (a < 0) # (b < 0) THEN -q ELSE q

\* Mat3x3<float>(m) * v for a matrix stored row by row in m[0..8].
Mat3x3Mul(m, v) ==
  [r \in 1 .. 3 |-> m[3 * (r - 1) + 1] * v[1] + m[3 * (r - 1) + 2] * v[2]
                    + m[3 * (r - 1) + 3] * v[3]]

\* Mat4x4<float>(m) * v for a matrix stored row by row in m[0..15].
Mat4x4Mul(m, v) ==
  [r \in 1 .. 4 |-> m[4 * (r - 1) + 1] * v[1] + m[4 * (r - 1) + 2] * v[2]
                    + m[4 * (r - 1) + 3] * v[3] + m[4 * (r - 1) + 4] * v[4]]

\* Vec3<float>(m[9], m[10], m[11]): the translation packed behind the 3x3
\* part of a world or view matrix.
Translation(m) == <<m[10], m[11], m[12]>>

VecAdd(a, b) == [k \in 1 .. 3 |-> a[k] + b[k]]
VecSub(a, b) == [k \in 1 .. 3 |-> a[k] - b[k]]

\* TransformUnit::ModelToWorld
ModelToWorld(coords) ==
  VecAdd(Mat3x3Mul(gstate.worldMatrix, coords), Translation(gstate.worldMatrix))

\* TransformUnit::WorldToView
WorldToView(coords) ==
  VecAdd(Mat3x3Mul(gstate.viewMatrix, coords), Translation(gstate.viewMatrix))

\* TransformUnit::ViewToClip
ViewToClip(coords) ==
  Mat4x4Mul(gstate.projMatrix, <<coords[1], coords[2], coords[3], 1>>)

\* TransformUnit::ClipToScreen: (c * vp1 / w + vp2) * 16, stored in an
\* integer coordinate.  The viewport registers are taken as the floats
\* getFloat24 decodes them to.
ClipToScreen(coords) ==
  LET w == coords[4]
  IN  <<TruncDiv((coords[1] * gstate.viewportx1 + gstate.viewportx2 * w) * 16, w),
        TruncDiv((coords[2] * gstate.viewporty1 + gstate.viewporty2 * w) * 16, w),
        TruncDiv((coords[3] * gstate.viewportz1 + gstate.viewportz2 * w) * 16, w)>>

\* Unsigned 32-bit integers are kept as two 16-bit halves <<high, low>>.
\* (u32)c, for an integer c:
ToU32(c) == <<(c \div 65536) % 65536, c % 65536>>

\* a - b on u32, wrapping around at 2^32.
SubU32(a, b) ==
  LET low == a[2] - b[2]
      borrow == IF low < 0 THEN 1 ELSE 0
  IN  <<(a[1] - b[1] - borrow) % 65536, low % 65536>>

\* a / 16 on u32.
Div16U32(a) == <<a[1] \div 16, (a[1] % 16) * 4096 + (a[2] \div 16)>>

\* a & 0x3ff on u32, as an integer.
And3ffU32(a) == a[2] % 1024

\* The offset subtracted with saturation at 0 instead of wraparound.
ScreenToDrawingClamped(coords) ==
  LET sub(c, o) == IF c < o % 65536 THEN 0 ELSE c - (o % 65536)
  IN  <<(sub(coords[1], gstate.offsetx) \div 16) % 1024,
        (sub(coords[2], gstate.offsety) \div 16) % 1024>>

\* TransformUnit::ScreenToDrawing:
\*   (((u32)coords.x - (gstate.offsetx & 0xffff)) / 16) & 0x3ff
ScreenToDrawing(coords) ==
  <<And3ffU32(Div16U32(SubU32(ToU32(coords[1]), <<0, gstate.offsetx % 65536>>))),
    And3ffU32(Div16U32(SubU32(ToU32(coords[2]), <<0, gstate.offsety % 65536>>)))>>

\* Register contents of the snapshot: identity matrices, identity viewport,
\* no offset; and a rotation with scaling and translation, a perspective
\* projection, a scaled and shifted viewport, an offset register with bits
\* above the sixteenth, and material registers with bits above the fields.
IdentityRegisters ==
  [modeThrough |-> FALSE, modeClear |-> FALSE, textureMapEnable |-> FALSE,
    worldMatrix |-> <<1, 0, 0, 0, 1, 0, 0, 0, 1, 0, 0, 0>>,
    viewMatrix |-> <<1, 0, 0, 0, 1, 0, 0, 0, 1, 0, 0, 0>>,
    projMatrix |-> <<1, 0, 0, 0, 0, 1, 0, 0, 0, 0, 1, 0, 0, 0, 0, 1>>,
    viewportx1 |-> 1, viewportx2 |-> 0, viewporty1 |-> 1, viewporty2 |-> 0,
    viewportz1 |-> 1, viewportz2 |-> 0,
    offsetx |-> 0, offsety |-> 0,
   materialdiffuse |-> 3368601, materialalpha |-> 128]

ScaledRegisters ==
  [modeThrough |-> FALSE, modeClear |-> FALSE, textureMapEnable |-> FALSE,
   worldMatrix |-> <<0, 1, 0, 2, 0, 0, 0, 0, 1, 3, 5, 1>>,
   viewMatrix |-> <<1, 0, 0, 0, 1, 0, 0, 0, 1, -2, 0, 4>>,
   projMatrix |-> <<2, 0, 0, 0, 0, 3, 0, 0, 0, 0, 1, 0, 0, 0, 1, 0>>,
   viewportx1 |-> 3, viewportx2 |-> 7, viewporty1 |-> 2, viewporty2 |-> 1,
   viewportz1 |-> 1, viewportz2 |-> 0,
   offsetx |-> 69536, offsety |-> 48,
   materialdiffuse |-> 2131829299, materialalpha |-> 511]

Registers == {IdentityRegisters, ScaledRegisters}

\* gstate.isModeThrough(), isModeClear() and textureMapEnable set in r.
WithModes(r, through, clear, texture) ==
  [r EXCEPT !.modeThrough = through, !.modeClear = clear,
            !.textureMapEnable = texture]

\* The snapshots a draw call can find.
GpuStates ==
  {WithModes(r, th, cl, tx) : r \in Registers, th \in BOOLEAN,
                              cl \in BOOLEAN, tx \in BOOLEAN}

\* ------------------------------------------------------ the vertex reader

\* What a vertex_type can declare: hasUV, hasNormal, hasColor0, hasColor1.
VertexTypes == [uv : BOOLEAN, nrm : BOOLEAN, col0 : BOOLEAN, col1 : BOOLEAN]

\* Vertex memory.  Record r of a buffer, as the decoder expands it:
\* positions, texture coordinates and normals are integer-valued floats,
\* colour channels are floats in [0,1] given in quarters (0 .. 4).
VertexBuffers == {"bufA", "bufB"}

VertexAt(v, r) ==
  IF v = "bufA"
  THEN [pos |-> <<r + 1, 2 * r, r + 2>>,
        uv |-> <<r, r + 1>>,
        nrm |-> <<0, r % 2, 1>>,
        color0 |-> <<r % 5, (r + 1) % 5, (r + 2) % 5, 4>>,
        color1 |-> <<(r + 3) % 5, (r + 4) % 5, (r + 1) % 5>>]
  ELSE [pos |-> <<40 - r, 3, 1>>,
        uv |-> <<7, r>>,
        nrm |-> <<0, 0, 0>>,
        color0 |-> <<4, 0, 2, 1>>,
        color1 |-> <<1, 3, 0>>]

\* u16 index_lower_bound = 0; u16 index_upper_bound = vertex_count - 1; and
\* GetIndexBounds when there is an index buffer: the smallest and the
\* largest of its vertex_count entries.
IndexBounds(idx, count) ==
  IF idx.present /\ count >= 1
  THEN LET vals == {idx.buf[k] : k \in DOMAIN idx.buf}
       IN  <<CHOOSE m \in vals : \A x \in vals : m <= x,
             CHOOSE m \in vals : \A x \in vals : m >= x>>
  ELSE <<0, (count - 1) % 65536>>

\* What buf holds at record r after DecodeVerts(buf, vertices, lo, hi): the
\* decoded vertex inside [lo, hi]; outside, what the static buffer held
\* before (zeroes, or a vertex of an earlier draw).
DecodedRecords(v, bounds, r) ==
  IF bounds[1] <= r /\ r <= bounds[2]
  THEN {VertexAt(v, r)}
  ELSE {VertexAt("bufB", r),
        [pos |-> <<0, 0, 0>>, uv |-> <<0, 0>>, nrm |-> <<0, 0, 0>>,
         color0 |-> <<0, 0, 0, 0>>, color1 |-> <<0, 0, 0>>]}

\* VertexReader::ReadPos, ReadUV, ReadNrm on the record the reader is at.
ReadPos(rec) == rec.pos
ReadUV(rec) == rec.uv
ReadNrm(rec) == rec.nrm

\* VertexReader::ReadColor0: the record's primary colour; nothing defined
\* when the format has no color0 to read.
ReadColor0(fmt, rec) ==
  IF fmt.col0 THEN {rec.color0} ELSE {<<0, 0, 0, 0>>, <<4, 4, 4, 4>>}

\* col * 255 converted to int, for a channel given in quarters.
ToByte(q) == (q * 255) \div 4

\* The packed diffuse colour read as B, G, R.
MaterialColorSwapped ==
  <<(gstate.materialdiffuse \div 65536) % 256,
    (gstate.materialdiffuse \div 256) % 256,
    gstate.materialdiffuse % 256,
    gstate.materialalpha % 256>>

\* Vec4<int>(materialdiffuse & 0xFF, (materialdiffuse >> 8) & 0xFF,
\*           (materialdiffuse >> 16) & 0xFF, materialalpha & 0xFF)
MaterialColor ==
  <<gstate.materialdiffuse % 256,
    (gstate.materialdiffuse \div 256) % 256,
    (gstate.materialdiffuse \div 65536) % 256,
    gstate.materialalpha % 256>>

\* Texture coordinates read whenever the format has them.
WantsUVAnyMode(fmt) == fmt.uv

\* !gstate.isModeClear() && gstate.textureMapEnable && vreader.hasUV()
WantsUV(fmt) == ~gstate.modeClear /\ gstate.textureMapEnable /\ fmt.uv

\* The through-mode position sent through ScreenToDrawing.
ThroughDrawPosOffset(pos) == ScreenToDrawing(<<pos[1], pos[2], pos[3]>>)

\* data[i].drawpos.x = pos[0]; data[i].drawpos.y = pos[1];
ThroughDrawPos(pos) == <<pos[1], pos[2]>>

\* worldnormal = ModelToWorld(normal) - translation; worldnormal /= Length():
\* the direction and its squared length (the division by the square root is
\* kept symbolic; squared length 0 is the division by zero).
WorldNormal(normal) ==
  LET d == VecSub(ModelToWorld(normal), Translation(gstate.worldMatrix))
  IN  <<d[1], d[2], d[3], d[1] * d[1] + d[2] * d[2] + d[3] * d[3]>>

\* VertexData data[3]: an element before anything is assigned to it.  at,
\* rec, src, reads, applied and lit record what was done for the vertex:
\* its stream position, the record the reader went to and what the reader
\* found there, the reader's accessors called, the transform functions
\* applied to it and the calls of Lighting::Process it was passed to.
NewVertexData(at, rec) ==
  [at |-> at, rec |-> rec, src |-> Unset, reads |-> <<>>, applied |-> <<>>,
   lit |-> 0,
   texturecoords |-> Unset, normal |-> Unset, color0 |-> Unset,
   color1 |-> Unset, worldpos |-> Unset, viewpos |-> Unset,
   clippos |-> Unset, drawpos |-> Unset, worldnormal |-> Unset]

\* The attribute part of the inner loop's body: ReadPos, then UV, normal,
\* color0 and color1 as the format and the snapshot say.  col is what the
\* ReadColor0 call of the color1 branch returned.
ReadAttributes(v, fmt, r, col) ==
  [v EXCEPT
     !.src = r,
     !.reads = <<"ReadPos">>
               \o (IF WantsUV(fmt) THEN <<"ReadUV">> ELSE <<>>)
               \o (IF fmt.nrm THEN <<"ReadNrm">> ELSE <<>>)
               \o (IF fmt.col0 THEN <<"ReadColor0">> ELSE <<>>)
               \o (IF fmt.col1 THEN <<"ReadColor0">> ELSE <<>>),
     !.texturecoords = IF WantsUV(fmt) THEN ReadUV(r) ELSE @,
     !.normal = IF fmt.nrm THEN ReadNrm(r) ELSE @,
     !.color0 = IF fmt.col0
                THEN [k \in 1 .. 4 |-> ToByte(r.color0[k])]
                ELSE MaterialColor,
     !.color1 = IF fmt.col1
                THEN [k \in 1 .. 3 |-> ToByte(col[k])]
                ELSE <<0, 0, 0>>]

\* The position part when through mode is off: the chain of transforms,
\* and the world normal when the format has a normal.
TransformVertex(v, fmt, pos) ==
  LET world == ModelToWorld(pos)
      view == WorldToView(world)
      clip == ViewToClip(view)
  IN  [v EXCEPT
         !.worldpos = world,
         !.viewpos = view,
         !.clippos = clip,
         !.drawpos = ScreenToDrawing(ClipToScreen(clip)),
         !.worldnormal = IF fmt.nrm THEN WorldNormal(v.normal) ELSE @,
         !.applied = <<"ModelToWorld", "WorldToView", "ViewToClip",
                       "ClipToScreen", "ScreenToDrawing">>
                     \o (IF fmt.nrm THEN <<"ModelToWorld">> ELSE <<>>)]

\* The position part in through mode.
ThroughVertex(v, pos) == [v EXCEPT !.drawpos = ThroughDrawPos(pos)]

\* Lighting::Process is never reached.
AfterAssembleUnlit(through) == "next"

\* if (!gstate.isModeThrough()) { ...; Lighting::Process(data[i]); }
AfterAssemble(through) == IF through THEN "next" ELSE "light"

\* Where the inner loop's test i < vtcs_per_prim leads.
AfterVertex(k, per) == IF k < per THEN "vertex" ELSE "switch"

\* SubmitPrimitive is entered: the vertices are decoded and vtcs_per_prim is
\* set from prim_type.
SubmitPrimitive(verts, idx, prim, count, vtype) ==
  /\ ppc = "idle"
  /\ vertices' = verts
  /\ indices' = idx
  /\ prim_type' = prim
  /\ vertex_count' = count
  /\ vertex_type' = vtype
  /\ vtcs_per_prim' = VtcsPerPrim(prim)
  /\ vtx' = 0
  /\ vi' = 0
  /\ data' = <<>>
  /\ clipCalls' = <<>>
  /\ lightCalls' = <<>>
  /\ ppc' = "head"
  /\ UNCHANGED <<threadVars, stateVars>>

\* The outer loop's test vtx < vertex_count; a round starts with a fresh
\* data[] and i = 0.
LoopHead ==
  /\ ppc = "head"
  /\ IF vtx < vertex_count
     THEN /\ data' = <<>>
          /\ vi' = 0
          /\ ppc' = AfterVertex(0, vtcs_per_prim)
     ELSE /\ ppc' = "returned"
          /\ UNCHANGED <<data, vi>>
  /\ UNCHANGED <<threadVars, prim_type, vertex_count, indices, vtcs_per_prim,
                 vtx, clipCalls, vertices, vertex_type, lightCalls, stateVars>>

\* One round of the inner loop up to the call of Lighting::Process: the
\* reader goes to the vertex's record, the attributes are read and the
\* position is transformed or, in through mode, copied.
AssembleVertex ==
  /\ ppc = "vertex"
  /\ \E rec \in GotoTargets(indices, vtx + vi) :
       \E r \in DecodedRecords(vertices, IndexBounds(indices, vertex_count), rec) :
         \E col \in ReadColor0(vertex_type, r) :
           LET v == ReadAttributes(NewVertexData(vtx + vi, rec), vertex_type, r, col)
           IN  data' = Append(data,
                              IF gstate.modeThrough
                              THEN ThroughVertex(v, ReadPos(r))
                              ELSE TransformVertex(v, vertex_type, ReadPos(r)))
  /\ IF AfterAssemble(gstate.modeThrough) = "light"
     THEN /\ ppc' = "light"
          /\ vi' = vi
     ELSE /\ vi' = vi + 1
          /\ ppc' = AfterVertex(vi + 1, vtcs_per_prim)
  /\ UNCHANGED <<threadVars, prim_type, vertex_count, indices, vtcs_per_prim,
                 vtx, clipCalls, vertices, vertex_type, lightCalls, stateVars>>

\* Lighting::Process(data[i]), then the inner loop's ++i.
LightVertex ==
  /\ ppc = "light"
  /\ lightCalls' = Append(lightCalls, data[vi + 1])
  /\ data' = [data EXCEPT ![vi + 1].lit = @ + 1]
  /\ vi' = vi + 1
  /\ ppc' = AfterVertex(vi + 1, vtcs_per_prim)
  /\ UNCHANGED <<threadVars, prim_type, vertex_count, indices, vtcs_per_prim,
                 vtx, clipCalls, vertices, vertex_type, stateVars>>

\* switch (prim_type), then the outer loop's vtx += vtcs_per_prim.
DispatchGroup ==
  /\ ppc = "switch"
  /\ clipCalls' = IF Consumer(prim_type) = "none" THEN clipCalls
                  ELSE Append(clipCalls, [fn |-> Consumer(prim_type), v |-> data])
  /\ vtx' = vtx + vtcs_per_prim
  /\ ppc' = "head"
  /\ UNCHANGED <<threadVars, prim_type, vertex_count, indices, vtcs_per_prim,
                 vi, data, vertices, vertex_type, lightCalls, stateVars>>

\* SubmitPrimitive has returned: its arguments and locals are gone, and the
\* record of the calls it made is closed.
SubmitReturn ==
  /\ ppc = "returned"
  /\ ppc' = "idle"
  /\ prim_type' = "GE_PRIM_POINTS"
  /\ vertex_count' = 0
  /\ indices' = NoIndices
  /\ vtcs_per_prim' = 0
  /\ vtx' = 0
  /\ vi' = 0
  /\ data' = <<>>
  /\ clipCalls' = <<>>
  /\ vertices' = "bufA"
  /\ vertex_type' = [uv |-> FALSE, nrm |-> FALSE, col0 |-> FALSE, col1 |-> FALSE]
  /\ lightCalls' = <<>>
  /\ UNCHANGED <<threadVars, stateVars>>

\* TransformUnit::ScreenToDrawing called on a screen coordinate.
ScreenToDrawingCall(coords) ==
  /\ screen' = coords
  /\ drawing' = ScreenToDrawing(coords)
  /\ UNCHANGED <<threadVars, ppc, prim_type, vertex_count, indices,
                 vtcs_per_prim, vtx, vi, data, clipCalls, vertices,
                 vertex_type, gstate, lightCalls>>

\* ------------------------------------------------------- specifications

\* Arguments of the ParallelLoop calls of the concurrent specification: for a
\* pool of n threads, one range below the threshold 2n and one above it
\* (with a remainder), from a lower bound that is not 0.
Lowers == {1}
Ranges(n) == {2 * n - 1, 2 * n + 1}

\* Arguments of the sequential specification.
LoopRequests == -1 .. LoopReqMax
LoopLowers == {-3, 0, 2}
LoopRanges == -1 .. LoopRangeMax

\* Everything but the pool's size and the GPU state, right after
\* construction.
InitRest ==
  /\ workersStarted = FALSE
  /\ workers = <<>>
  /\ poolMutex = Free
  /\ active = [w \in WorkerIds |-> NewWorkerActive]
  /\ jobsDone = [w \in WorkerIds |-> NewWorkerJobs]
  /\ jobsTarget = [w \in WorkerIds |-> NewWorkerJobs]
  /\ work_ = [w \in WorkerIds |-> NoWork]
  /\ start_ = [w \in WorkerIds |-> 0]
  /\ end_ = [w \in WorkerIds |-> 0]
  /\ mutex = [w \in WorkerIds |-> Free]
  /\ sigWait = [w \in WorkerIds |-> FALSE]
  /\ doneWait = [w \in WorkerIds |-> {}]
  /\ cpc = [c \in Callers |-> "idle"]
  /\ lower = [c \in Callers |-> 0]
  /\ upper = [c \in Callers |-> 0]
  /\ chunk = [c \in Callers |-> 0]
  /\ s = [c \in Callers |-> 0]
  /\ i = [c \in Callers |-> 0]
  /\ passed = [c \in Owners |-> <<>>]
  /\ executed = [c \in Owners |-> EmptyBag]
  /\ calls = 0
  /\ everParallel = FALSE
  /\ clientpc = "idle"
  /\ dtorpc = "idle"
  /\ ppc = "idle"
  /\ prim_type = "GE_PRIM_POINTS"
  /\ vertex_count = 0
  /\ indices = NoIndices
  /\ vtcs_per_prim = 0
  /\ vtx = 0
  /\ vi = 0
  /\ data = <<>>
  /\ clipCalls = <<>>
  /\ vertices = "bufA"
  /\ vertex_type = [uv |-> FALSE, nrm |-> FALSE, col0 |-> FALSE, col1 |-> FALSE]
  /\ lightCalls = <<>>
  /\ screen = <<0, 0, 0>>
  /\ drawing = Unset

\* A pool, constructed with some requested size; no worker exists yet.
Init ==
  /\ requested \in 1 .. MaxReq
  /\ numThreads_ = ThreadPoolCtor(requested)
  /\ wpc = [w \in WorkerIds |-> "none"]
  /\ InitRest
  /\ gstate = IdentityRegisters

\* Threads call ParallelLoop on the pool concurrently; the workers run.
Next ==
  \/ \E c \in Callers, lo \in Lowers, r \in Ranges(numThreads_) : Call(c, lo, lo + r)
  \/ \E c \in Callers : CallerStep(c)
  \/ \E c \in Callers : SpuriousDone(c)
  \/ \E w \in WorkerIds : WorkerStep(w)
  \/ \E w \in WorkerIds : SpuriousWake(w)

Spec == Init /\ [][Next]_vars

\* The scheduler runs every thread that can run: a worker's next step stays
\* enabled until it is taken (weak fairness); a caller's step may need a
\* worker's mutex, which the worker takes and releases again and again, and a
\* thread contending for a mutex that is released again and again gets it
\* (strong fairness).  Spurious wake-ups are possible but never required.
\* Progress is checked for pools of one, two and three threads.
FairRequests == {1, 2, 3}

InitFair ==
  /\ requested \in FairRequests
  /\ numThreads_ = ThreadPoolCtor(requested)
  /\ wpc = [w \in WorkerIds |-> "none"]
  /\ InitRest
  /\ gstate = IdentityRegisters

FairSpec ==
  /\ InitFair
  /\ [][Next]_vars
  /\ \A c \in Callers : SF_vars(CallerStep(c))
  /\ \A w \in WorkerIds : WF_vars(WorkerStep(w))

\* The sequential view: one thread calls ParallelLoop, for every requested
\* pool size and a wide set of ranges, and the threads are scheduled in one
\* fixed way: the caller runs until it blocks, then the lowest-numbered
\* runnable worker takes a step.
InitLoop ==
  /\ requested \in LoopRequests
  /\ numThreads_ = ThreadPoolCtor(requested)
  /\ wpc = [w \in WorkerIds |-> "none"]
  /\ InitRest
  /\ gstate = IdentityRegisters

LoopCall == \E lo \in LoopLowers, r \in LoopRanges : Call("c1", lo, lo + r)

LowestWorkerStep ==
  \E w \in WorkerIds :
    /\ WorkerStep(w)
    /\ \A v \in WorkerIds : v < w => ~ENABLED WorkerStep(v)

NextLoop ==
  \/ LoopCall
  \/ CallerStep("c1")
  \/ (~ENABLED (LoopCall \/ CallerStep("c1"))) /\ LowestWorkerStep

SpecLoop == InitLoop /\ [][NextLoop]_vars

\* One worker thread, a client that submits jobs to it and waits for them,
\* and a thread that destroys it at any moment.
InitWorker ==
  /\ requested = 1
  /\ numThreads_ = ThreadPoolCtor(requested)
  /\ wpc = [w \in WorkerIds |-> IF w = 0 THEN "start" ELSE "none"]
  /\ InitRest
  /\ gstate = IdentityRegisters

NextWorker ==
  \/ \E r \in JobRanges : ClientProcess(r[1], r[2])
  \/ ClientWait
  \/ ClientWake
  \/ ClientSpurious
  \/ ClientWaited
  \/ DtorCall
  \/ DtorStop
  \/ DtorJoin
  \/ WorkerStep(0)
  \/ SpuriousWake(0)

SpecWorker == InitWorker /\ [][NextWorker]_vars

\* The worker and the destroying thread are scheduled fairly; the client may
\* stop submitting at any moment.
FairWorker ==
  /\ SpecWorker
  /\ WF_vars(WorkerStep(0))
  /\ SF_vars(DtorStop)
  /\ WF_vars(DtorJoin)


\* Draw calls of every primitive type and every vertex count up to MaxVerts
\* (and a negative one), with and without an index buffer.
VertexCounts == -1 .. MaxVerts

\* The draw calls of this specification read buffer A with a format of
\* position and color0.
PrimVertexType == [uv |-> FALSE, nrm |-> FALSE, col0 |-> TRUE, col1 |-> FALSE]

NextPrim ==
  \/ \E prim \in PrimTypes, count \in VertexCounts :
       \E idx \in IndexBuffers(count) :
         SubmitPrimitive("bufA", idx, prim, count, PrimVertexType)
  \/ LoopHead
  \/ AssembleVertex
  \/ LightVertex
  \/ DispatchGroup
  \/ SubmitReturn

InitPrim ==
  /\ requested = 1
  /\ numThreads_ = ThreadPoolCtor(requested)
  /\ wpc = [w \in WorkerIds |-> "none"]
  /\ InitRest
  /\ gstate = IdentityRegisters

SpecPrim == InitPrim /\ [][NextPrim]_vars

\* SubmitPrimitive runs on one thread, which keeps running.
FairPrim ==
  /\ SpecPrim
  /\ WF_vars(LoopHead)
  /\ WF_vars(AssembleVertex)
  /\ WF_vars(LightVertex)
  /\ WF_vars(DispatchGroup)
  /\ WF_vars(SubmitReturn)

\* Draw calls of one primitive, and of one primitive and a vertex more, of
\* every vertex format, from either buffer, under every snapshot.
VertexDraws == {<<"GE_PRIM_TRIANGLES", 3>>, <<"GE_PRIM_RECTANGLES", 2>>,
                <<"GE_PRIM_RECTANGLES", 3>>}

NextVertex ==
  \/ \E verts \in VertexBuffers, draw \in VertexDraws, vtype \in VertexTypes :
       \E idx \in IndexBuffers(draw[2]) :
         SubmitPrimitive(verts, idx, draw[1], draw[2], vtype)
  \/ LoopHead
  \/ AssembleVertex
  \/ LightVertex
  \/ DispatchGroup
  \/ SubmitReturn

InitVertex ==
  /\ requested = 1
  /\ numThreads_ = ThreadPoolCtor(requested)
  /\ wpc = [w \in WorkerIds |-> "none"]
  /\ InitRest
  /\ gstate \in GpuStates

SpecVertex == InitVertex /\ [][NextVertex]_vars

\* ScreenToDrawing on its own: screen coordinates at and around the offsets,
\* and offset registers below, at and above sixteen bits.
ScreenSamples == {0, 15, 16, 47, 48, 3999, 4000, 4016, 16384, 65535}
OffsetSamples == {0, 48, 4000, 65535, 65553, 2147483647}

NextScreen ==
  \E x \in ScreenSamples, y \in ScreenSamples : ScreenToDrawingCall(<<x, y, 0>>)

InitScreen ==
  /\ requested = 1
  /\ numThreads_ = ThreadPoolCtor(requested)
  /\ wpc = [w \in WorkerIds |-> "none"]
  /\ InitRest
  /\ \E ox \in OffsetSamples, oy \in OffsetSamples :
       gstate = [IdentityRegisters EXCEPT !.offsetx = ox, !.offsety = oy]

SpecScreen == InitScreen /\ [][NextScreen]_vars

\* ---------------------------------------------------------------- claims

\* The entries of a sequence.
Entries(q) == {q[k] : k \in 1 .. Len(q)}

\* C1: when ParallelLoop returns, every invocation of loop that the call
\* started has finished: each sub-range it handed out has been executed, and
\* no worker still holds a job of the call, pending or running.
C1_ReturnsAfterAllChunks ==
  \A c \in Callers :
    cpc[c] = "returned" =>
      /\ \A k \in 1 .. Len(passed[c]) : CopiesIn(passed[c][k], executed[c]) >= 1
      /\ \A w \in WorkerIds :
           work_[w] = c =>
             /\ wpc[w] \notin {"run", "done"}
             /\ jobsDone[w] >= jobsTarget[w]

\* A call on the parallel path of a three-thread pool has returned.
C1_Witness ==
  \E c \in Callers :
    /\ cpc[c] = "returned"
    /\ Len(passed[c]) = 3
    /\ numThreads_ = 3

\* The indices of [lo, hi) that sub-range r contains.
Covers(r, idx) == r.lo <= idx /\ idx < r.hi

\* C2: for every pool size 1..8 and every range of at least 2n indices, the
\* sub-ranges one call hands to loop are n non-empty half-open intervals
\* (n-1 given to the workers 0 .. n-2 and the last run by the caller), each
\* starting where the one before ends, the first at lower and the last
\* ending at upper; every index of [lower, upper) lies in exactly one of
\* them and none reaches outside [lower, upper).
C2_ChunksPartitionRange ==
  LET c == "c1"
      P == passed[c]
  IN (/\ cpc[c] \in {"wait", "dwait", "unlock", "returned"}
      /\ upper[c] - lower[c] >= 2 * numThreads_)
     =>
      /\ numThreads_ \in 1 .. 8
      /\ Len(P) = numThreads_
      /\ \A k \in 1 .. (Len(P) - 1) : P[k].by = k - 1
      /\ P[Len(P)].by = c
      /\ P[1].lo = lower[c]
      /\ P[Len(P)].hi = upper[c]
      /\ \A k \in 1 .. Len(P) : P[k].lo < P[k].hi
      /\ \A k \in 1 .. (Len(P) - 1) : P[k].hi = P[k + 1].lo
      /\ \A k \in 1 .. Len(P) : lower[c] <= P[k].lo /\ P[k].hi <= upper[c]
      /\ \A idx \in lower[c] .. (upper[c] - 1) :
           Cardinality({k \in 1 .. Len(P) : Covers(P[k], idx)}) = 1

\* An eight-thread pool has split a range that leaves a remainder.
C2_Witness ==
  /\ cpc["c1"] = "returned"
  /\ numThreads_ = 8
  /\ upper["c1"] - lower["c1"] = 23
  /\ Len(passed["c1"]) = 8

\* A call whose range is below twice the pool size is in progress.
InSmallCall(c) ==
  /\ cpc[c] # "idle"
  /\ upper[c] - lower[c] < 2 * numThreads_

\* C3: a call with upper - lower < 2 * numThreads_ (empty and negative
\* ranges included) runs loop(lower, upper) exactly once on the calling
\* thread, hands no job to a worker, does not start the workers and never
\* holds the pool mutex.
C3_SmallRangeRunsInline ==
  /\ [](\A c \in Callers : InSmallCall(c) =>
          /\ poolMutex # c
          /\ cpc[c] \in {"small", "returned"}
          /\ \A k \in 1 .. Len(passed[c]) : passed[c][k].by = c
          /\ cpc[c] = "small" => passed[c] = <<>> /\ executed[c] = EmptyBag
          /\ cpc[c] = "returned" =>
               /\ passed[c] = <<[lo |-> lower[c], hi |-> upper[c], by |-> c]>>
               /\ executed[c] = SetToBag(Entries(passed[c])))
  /\ [][(\E c \in Callers : InSmallCall(c)) =>
          /\ workers' = workers
          /\ workersStarted' = workersStarted
          /\ jobsTarget' = jobsTarget
          /\ work_' = work_
          /\ poolMutex' = poolMutex]_vars

\* A call with a negative range has returned, on a pool that never started
\* its workers.
C3_Witness ==
  /\ cpc["c1"] = "returned"
  /\ upper["c1"] < lower["c1"]
  /\ workers = <<>>
  /\ calls = 2

\* C4: numThreads_ is min(max(requested, 1), 8) and never changes; there are
\* no workers until a call has taken the parallel path, exactly numThreads_
\* distinct ones once such a call has passed StartWorkers, and the workers
\* once created are never added to or removed.
C4_PoolSizeFixed ==
  /\ [](/\ numThreads_ = Min(Max(requested, 1), 8)
        /\ ~everParallel => workers = <<>>
        /\ Len(workers) \in {0, numThreads_}
        /\ Cardinality(Entries(workers)) = Len(workers)
        /\ (everParallel /\ \A c \in Callers : cpc[c] # "lock")
             => Len(workers) = numThreads_)
  /\ [][/\ numThreads_' = numThreads_
        /\ workers # <<>> => workers' = workers]_vars

\* A second call on the parallel path runs on the eight workers the first
\* one created, in a pool that was asked for more than eight threads.
C4_Witness ==
  /\ requested > 8
  /\ Len(workers) = 8
  /\ calls = 2
  /\ cpc["c1"] = "dispatch"

\* C5: jobsDone <= jobsTarget <= jobsDone + 1 in every state, exactly one
\* job is in flight while the worker runs one, and neither counter ever
\* decreases.
C5_OneJobInFlight ==
  /\ [](\A w \in WorkerIds :
          /\ jobsDone[w] <= jobsTarget[w]
          /\ jobsTarget[w] <= jobsDone[w] + 1
          /\ wpc[w] \in {"run", "done"} => jobsTarget[w] = jobsDone[w] + 1)
  /\ [][\A w \in WorkerIds :
          /\ jobsDone'[w] >= jobsDone[w]
          /\ jobsTarget'[w] >= jobsTarget[w]]_vars

\* A second job was submitted while the first had not been picked up, and
\* the worker is now running.
C5_Witness ==
  /\ calls = 2
  /\ jobsDone[0] = 0
  /\ wpc[0] = "run"

\* C6: once active is false the worker never starts a job: it is never
\* inside work_ or about to count a job, and jobsDone and the executed jobs
\* stay as they are, even with a job pending.
C6_NoJobAfterStop ==
  /\ [](~active[0] => wpc[0] \notin {"run", "done"})
  /\ [][~active[0] => jobsDone' = jobsDone /\ executed' = executed]_vars

\* The worker has left its loop with a submitted job that it never ran.
C6_Witness ==
  /\ ~active[0]
  /\ wpc[0] = "exited"
  /\ jobsTarget[0] > jobsDone[0]
  /\ executed[Client] = EmptyBag

\* C7: a stop request never deadlocks: once ~WorkerThread has been entered,
\* the worker leaves WorkFunc and the destructor's join returns.
C7_StopTerminates ==
  (dtorpc = "stop") ~> (dtorpc = "joined" /\ wpc[0] = "exited")

\* The destructor has joined a worker that ran one job and was stopped with
\* another one pending.
C7_Witness ==
  /\ dtorpc = "joined"
  /\ BagCardinality(executed[Client]) = 1
  /\ jobsTarget[0] > jobsDone[0]

\* C8: with the workers alive, every submitted job is eventually executed and
\* counted, a caller blocked in WaitForCompletion is eventually released, and
\* every ParallelLoop call eventually returns.
C8_SubmittedJobsComplete ==
  \A c \in Callers :
    (cpc[c] \in {"lock", "small", "dwait"} \/ \E w \in WorkerIds : work_[w] = c /\ jobsTarget[w] > jobsDone[w])
      ~> (cpc[c] = "returned" /\ \A w \in WorkerIds : work_[w] = c => jobsDone[w] >= jobsTarget[w])

\* A caller that was blocked in WaitForCompletion has been notified by a
\* worker that went back to waiting for its next job.
C8_Witness ==
  \E c \in Callers :
    /\ cpc[c] = "dwait"
    /\ c \notin doneWait[workers[i[c] + 1]]
    /\ jobsDone[workers[i[c] + 1]] = 2


\* C9: SubmitPrimitive with a primitive type other than points, lines,
\* triangles and rectangles makes no call to the Clipper and returns, for
\* every vertex_count.
C9_UnsupportedReturns ==
  /\ [](prim_type \notin SupportedPrims => clipCalls = <<>>)
  /\ (ppc = "head" /\ prim_type \notin SupportedPrims) ~> (ppc = "returned")

\* The group that call j (counted from 0) of a draw call receives: the
\* vertices at stream positions per*j .. per*j + per - 1, in that order.
GroupAt(j, per) == [k \in 1 .. per |-> per * j + k - 1]

\* The stream positions of the vertices in a call's argument.
PositionsOf(call) == [k \in 1 .. Len(call.v) |-> call.v[k].at]

\* C10: a triangle draw of 3k vertices makes exactly k calls, all to
\* ProcessTriangle, the j-th with the vertices at positions 3j, 3j+1, 3j+2;
\* a rectangle draw of 2k vertices makes exactly k calls, all to
\* ProcessQuad, with positions 2j, 2j+1; no draw calls the other consumer,
\* and points and lines call neither.
C10_GroupsRouted ==
  /\ prim_type = "GE_PRIM_TRIANGLES" =>
       /\ \A j \in 1 .. Len(clipCalls) :
            /\ clipCalls[j].fn = "ProcessTriangle"
            /\ PositionsOf(clipCalls[j]) = GroupAt(j - 1, 3)
       /\ (ppc = "returned" /\ vertex_count >= 0 /\ vertex_count % 3 = 0)
            => Len(clipCalls) * 3 = vertex_count
  /\ prim_type = "GE_PRIM_RECTANGLES" =>
       /\ \A j \in 1 .. Len(clipCalls) :
            /\ clipCalls[j].fn = "ProcessQuad"
            /\ PositionsOf(clipCalls[j]) = GroupAt(j - 1, 2)
       /\ (ppc = "returned" /\ vertex_count >= 0 /\ vertex_count % 2 = 0)
            => Len(clipCalls) * 2 = vertex_count
  /\ prim_type \in {"GE_PRIM_POINTS", "GE_PRIM_LINES"} => clipCalls = <<>>

\* A draw of six vertices as triangles has returned after two calls.
C10_Witness ==
  /\ ppc = "returned"
  /\ prim_type = "GE_PRIM_TRIANGLES"
  /\ vertex_count = 6
  /\ Len(clipCalls) = 2

\* The vertices assembled so far in the current draw call: those of the
\* group being filled and those already handed to the Clipper.
Assembled ==
  Entries(data) \cup UNION {Entries(clipCalls[j].v) : j \in 1 .. Len(clipCalls)}

\* The vertices whose inner-loop round is complete (past Lighting::Process
\* when through mode is off).
Finished ==
  {data[k] : k \in 1 .. (IF ppc \in {"vertex", "light"} THEN vi ELSE Len(data))}
  \cup UNION {Entries(clipCalls[j].v) : j \in 1 .. Len(clipCalls)}

\* C11: in through mode every assembled vertex has drawpos = (pos.x, pos.y)
\* of the position read for it, whatever the matrices, viewport and offset
\* registers hold, and none of ModelToWorld, WorldToView, ViewToClip,
\* ClipToScreen, ScreenToDrawing has been applied to it (worldpos, viewpos,
\* clippos and worldnormal are never assigned).
C11_ThroughBypass ==
  gstate.modeThrough =>
    \A v \in Assembled :
      /\ v.drawpos = <<ReadPos(v.src)[1], ReadPos(v.src)[2]>>
      /\ v.applied = <<>>
      /\ v.worldpos = Unset /\ v.viewpos = Unset /\ v.clippos = Unset
      /\ v.worldnormal = Unset

\* A through-mode draw under the scaled registers (non-identity matrices, an
\* offset above every coordinate) has handed a triangle to the Clipper.
C11_Witness ==
  /\ gstate.modeThrough
  /\ gstate.offsetx = ScaledRegisters.offsetx
  /\ gstate.worldMatrix = ScaledRegisters.worldMatrix
  /\ ppc = "returned"
  /\ vertices = "bufA"
  /\ vertex_type.nrm
  /\ Len(clipCalls) = 1
  /\ clipCalls[1].v[2].drawpos = <<2, 2>>

\* The result component for screen coordinate c and offset register o.
\* Floored division and modulus over the integers give the value of the
\* unsigned 32-bit computation, because 2^32 is a multiple of 16 * 1024.
WrappedComponent(c, o) == ((c - (o % 65536)) \div 16) % 1024

\* C12: ScreenToDrawing returns, in each component, the 32-bit wrapped
\* difference of the coordinate and the offset masked to 16 bits, divided
\* by 16 and masked to 10 bits: a value in 0..1023, and the wrapped value
\* rather than 0 when the masked offset exceeds the coordinate.
C12_ScreenToDrawingWraps ==
  drawing # Unset =>
    /\ drawing[1] = WrappedComponent(screen[1], gstate.offsetx)
    /\ drawing[2] = WrappedComponent(screen[2], gstate.offsety)
    /\ drawing[1] \in 0 .. 1023
    /\ drawing[2] \in 0 .. 1023
    /\ screen[1] < gstate.offsetx % 65536 =>
         drawing[1] = (1024 - ((((gstate.offsetx % 65536) - screen[1] + 15) \div 16)
                                % 1024)) % 1024

\* ScreenToDrawing was called with a coordinate below the masked offset, and
\* the result is the wrapped one, not 0.
C12_Witness ==
  /\ drawing # Unset
  /\ gstate.offsetx = 65553
  /\ screen[1] = 0
  /\ drawing[1] = 1022

\* C13: a vertex of a draw whose format has no color0 gets the material
\* colour of the snapshot: R, G, B the three low bytes of materialdiffuse,
\* A the low byte of materialalpha, whatever the vertex data; with color0
\* in the format each channel is the decoded channel times 255, truncated.
C13_Color0 ==
  \A v \in Assembled :
    IF vertex_type.col0
    THEN \A k \in 1 .. 4 :
           /\ v.color0[k] * 4 <= v.src.color0[k] * 255
           /\ v.src.color0[k] * 255 < (v.color0[k] + 1) * 4
    ELSE /\ \A k \in 1 .. 4 : v.color0[k] \in 0 .. 255
         /\ v.color0[1] + 256 * v.color0[2] + 65536 * v.color0[3]
              = gstate.materialdiffuse % 16777216
         /\ v.color0[4] = gstate.materialalpha % 256

\* A vertex without color0 was assembled under the material registers that
\* have bits above the colour fields.
C13_Witness ==
  /\ ~vertex_type.col0
  /\ gstate.materialdiffuse = ScaledRegisters.materialdiffuse
  /\ Len(data) >= 1
  /\ data[1].color0 = <<51, 34, 17, 255>>

\* C14: color1 of an assembled vertex is the record's color1 (each channel
\* times 255, truncated) when the format has color1, and (0, 0, 0) when it
\* has not.
C14_Color1 ==
  \A v \in Assembled :
    v.color1 = IF vertex_type.col1
               THEN [k \in 1 .. 3 |-> (v.src.color1[k] * 255) \div 4]
               ELSE <<0, 0, 0>>

\* C15: ReadUV is called for a vertex, and its texturecoords are what was
\* read, exactly when texture mapping is enabled, clear mode is off and the
\* format has UV; otherwise texturecoords are never assigned.
C15_UVRead ==
  \A v \in Assembled :
    LET wanted == /\ gstate.textureMapEnable
                  /\ ~gstate.modeClear
                  /\ vertex_type.uv
        called == \E k \in 1 .. Len(v.reads) : v.reads[k] = "ReadUV"
    IN  /\ called <=> wanted
        /\ wanted => v.texturecoords = v.src.uv
        /\ ~wanted => v.texturecoords = Unset

\* A vertex with UV in its format was assembled in clear mode with texture
\* mapping enabled: nothing was read.
C15_Witness ==
  /\ vertex_type.uv
  /\ gstate.modeClear
  /\ gstate.textureMapEnable
  /\ Len(data) >= 1
  /\ data[1].texturecoords = Unset

\* C16: with through mode off, Lighting::Process is called once for every
\* vertex, in stream order, with worldpos, viewpos, clippos and drawpos
\* (and worldnormal, when the format has a normal) already computed, and
\* every vertex handed to the Clipper has been through it; in through mode
\* it is never called.
C16_LightingOnce ==
  /\ gstate.modeThrough =>
       /\ lightCalls = <<>>
       /\ \A v \in Assembled : v.lit = 0
  /\ ~gstate.modeThrough =>
       /\ \A k \in 1 .. Len(lightCalls) :
            /\ lightCalls[k].at = k - 1
            /\ lightCalls[k].lit = 0
            /\ lightCalls[k].worldpos # Unset
            /\ lightCalls[k].viewpos # Unset
            /\ lightCalls[k].clippos # Unset
            /\ lightCalls[k].drawpos # Unset
            /\ vertex_type.nrm => lightCalls[k].worldnormal # Unset
       /\ \A v \in Finished :
            /\ v.lit = 1
            /\ v.at + 1 \in 1 .. Len(lightCalls)
       /\ Len(lightCalls) = Cardinality({v.at : v \in Finished})

\* A triangle with normals has been lit and handed to the Clipper.
C16_Witness ==
  /\ ~gstate.modeThrough
  /\ vertex_type.nrm
  /\ ppc = "returned"
  /\ Len(clipCalls) = 1
  /\ Len(lightCalls) = 3


\* C17: on the parallel path the call first hands numThreads_ - 1 chunks to
\* the workers 0 .. numThreads_ - 2, one each and in that order (the last
\* worker gets nothing), then runs the final chunk itself, and only when
\* that has returned waits for worker 0, then 1, ...: while it waits for
\* worker i the workers before i have completed their chunks.
C17_ThreePhases ==
  \A c \in Callers :
  LET P == passed[c]
      n == numThreads_
      toWorkers(m) == Len(P) = m /\ \A k \in 1 .. m : P[k].by = k - 1
      inlineRun == /\ Len(P) = n
                   /\ \A k \in 1 .. (n - 1) : P[k].by = k - 1
                   /\ P[n].by = c
                   /\ CopiesIn(P[n], executed[c]) = 1
      completed(k) == /\ poolMutex = c => jobsDone[k] = jobsTarget[k]
                      /\ CopiesIn(P[k + 1], executed[c]) = 1
  IN  (cpc[c] # "idle" /\ ~InSmallCall(c)) =>
        /\ cpc[c] = "lock" => P = <<>>
        /\ cpc[c] = "dispatch" => i[c] < n - 1 /\ toWorkers(i[c])
        /\ cpc[c] = "final" =>
             /\ toWorkers(n - 1)
             /\ BagToSet(executed[c]) \subseteq Entries(P)
        /\ cpc[c] \in {"wait", "dwait"} =>
             /\ inlineRun
             /\ i[c] < n - 1
             /\ \A k \in 0 .. (i[c] - 1) : completed(k)
        /\ cpc[c] \in {"unlock", "returned"} =>
             /\ inlineRun
             /\ \A k \in 0 .. (n - 2) : completed(k)
        /\ cpc[c] # "lock" =>
             /\ work_[n - 1] = NoWork
             /\ jobsTarget[n - 1] = 0

\* A three-thread pool: the caller has run its own chunk and is blocked on
\* worker 1, having seen worker 0 complete, while worker 1 is still running.
C17_Witness ==
  /\ numThreads_ = 3
  /\ cpc["c1"] = "dwait"
  /\ i["c1"] = 1
  /\ Len(passed["c1"]) = 3
  /\ wpc[1] = "run"

\* How often a job was submitted to worker 0 by the client.
Submitted(e) ==
  Cardinality({k \in 1 .. Len(passed[Client]) : passed[Client][k] = e})

InParallelSection ==
  {c \in Callers : cpc[c] \in {"dispatch", "final", "wait", "dwait", "unlock"}}

\* C19: with several threads in ParallelLoop at once, at most one is
\* between StartWorkers and the return of its last WaitForCompletion, and
\* it holds the pool mutex throughout; a worker's job slot is written only
\* when the worker has completed the job submitted before; and a call
\* returns with each of its chunks run exactly once.
C19_SectionsExclusive ==
  /\ [](/\ Cardinality(InParallelSection) <= 1
        /\ \A c \in Callers : c \in InParallelSection <=> poolMutex = c
        /\ \A c \in Callers :
             (cpc[c] = "returned" /\ ~InSmallCall(c)) =>
               /\ Len(passed[c]) = numThreads_
               /\ executed[c] = SetToBag(Entries(passed[c])))
  /\ [][\A w \in WorkerIds :
          (\/ work_'[w] # work_[w]
           \/ start_'[w] # start_[w]
           \/ end_'[w] # end_[w]
           \/ jobsTarget'[w] # jobsTarget[w])
          => /\ jobsDone[w] = jobsTarget[w]
             /\ wpc[w] \notin {"run", "done"}]_vars

\* One caller holds the pool mutex and waits for a worker while the other
\* caller, also on the parallel path, is stopped at the lock.
C19_Witness ==
  /\ poolMutex = "c1"
  /\ cpc["c1"] = "dwait"
  /\ cpc["c2"] = "lock"
  /\ numThreads_ = 3

\* C20: in a draw of a supported primitive type every stream position the
\* assembler resolves lies in 0 .. vertex_count - 1, and every record read
\* lies inside the decoded range.
C20_PositionsInRange ==
  prim_type \in SupportedPrims =>
    \A v \in Assembled :
      /\ 0 <= v.at /\ v.at < vertex_count
      /\ ~indices.present =>
           /\ IndexBounds(indices, vertex_count)[1] <= v.rec
           /\ v.rec <= IndexBounds(indices, vertex_count)[2]

====
